---------------------------- MODULE Spec2Model ----------------------------
(***************************************************************************)
(* Model of .github/scripts/update_manifest.py: the release step that      *)
(* inserts a new version entry into the plugin manifest of the stable or   *)
(* the prerelease channel.                                                 *)
(*                                                                         *)
(* One invocation of main() is a process that walks through the sections   *)
(* of main() in program order.  Text on which the script works character   *)
(* by character (IS_PRERELEASE, the tag name, the version) is a sequence   *)
(* of one-character strings; all other text is an opaque string.           *)
(***************************************************************************)
EXTENDS Naturals, Sequences, FiniteSets

VARIABLES
    files,     \* the two manifest files under manifest-repo/
    out,       \* per invocation: the file named by GITHUB_OUTPUT
    inp,       \* per invocation: environment, build.yaml and checksum.txt
    pc,        \* per invocation: the section of main() to run next
    loc,       \* per invocation: the local variables of main()
    files0,    \* per invocation: the manifest files as they were at launch
    clock      \* UTC time in seconds; ticks whenever an invocation is launched

vars == <<files, out, inp, pc, loc, files0, clock>>

\* Number of invocations the release pipeline runs one after the other.
MaxRuns == 2

Procs == {"p1", "p2"}

---------------------------------------------------------------------------
(* Text                                                                    *)

s_true   == <<"t", "r", "u", "e">>
s_True   == <<"T", "r", "u", "e">>
s_TRUE   == <<"T", "R", "U", "E">>
s_false  == <<"f", "a", "l", "s", "e">>
s_yes    == <<"y", "e", "s">>
s_trueSp == <<"t", "r", "u", "e", " ">>

tag_v1  == <<"v", "1">>
tag_vv1 == <<"v", "v", "1">>
tag_1   == <<"1">>
tag_v   == <<"v">>
tag_1v  == <<"1", "v">>

UpperToLower ==
    [A |-> "a", B |-> "b", C |-> "c", D |-> "d", E |-> "e", F |-> "f",
     G |-> "g", H |-> "h", I |-> "i", J |-> "j", K |-> "k", L |-> "l",
     M |-> "m", N |-> "n", O |-> "o", P |-> "p", Q |-> "q", R |-> "r",
     S |-> "s", T |-> "t", U |-> "u", V |-> "v", W |-> "w", X |-> "x",
     Y |-> "y", Z |-> "z"]

\* str.lower()
LowerNoOp(s) == s
Lower(s) ==
    [i \in 1..Len(s) |->
        IF s[i] \in DOMAIN UpperToLower THEN UpperToLower[s[i]] ELSE s[i]]

\* str.lstrip(c) for a one-character c: every leading c is removed
RECURSIVE LStrip(_, _)
LStrip(s, c) ==
    IF s # <<>> /\ Head(s) = c THEN LStrip(Tail(s), c) ELSE s

---------------------------------------------------------------------------
(* Environment variables and dictionaries                                  *)

Unset  == [set |-> FALSE]
Val(v) == [set |-> TRUE, val |-> v]

\* os.environ.get(name, default)
EnvGet(env, name, default) ==
    IF env[name].set THEN env[name].val ELSE default

\* `not os.environ.get(name)`: the variable is unset (None) or empty
FalsyUnsetOnly(env, name) == ~env[name].set
Falsy(env, name) == ~env[name].set \/ Len(env[name].val) = 0

\* dict.get(key, default)
Get(d, key, default) == IF key \in DOMAIN d THEN d[key] ELSE default

---------------------------------------------------------------------------
(* The manifest files                                                      *)

StableFile     == "manifest-repo/manifest.json"
PrereleaseFile == "manifest-repo/manifest-prerelease.json"
Channels       == {StableFile, PrereleaseFile}

\* lines 13-15: is_prerelease, target_filename, manifest_file
IsPrerelease(env) ==
    Lower(EnvGet(env, "IS_PRERELEASE", s_false)) = s_true

ManifestFile(is_prerelease) ==
    IF is_prerelease THEN PrereleaseFile ELSE StableFile

\* A file is absent, or holds text that json.load rejects (text names the
\* plugin entries a reader of the damaged text could still make out), or
\* holds the JSON text of the list `data`.
Absent       == [exists |-> FALSE, valid |-> FALSE, data |-> <<>>]
Damaged(d)   == [exists |-> TRUE,  valid |-> FALSE, data |-> d]

\* json.dump(manifest_data, f, indent=4) into a file opened with 'w'
JsonDumpAppending(old, manifest_data) ==
    [exists |-> TRUE, valid |-> TRUE, data |-> old.data \o manifest_data]
JsonDump(old, manifest_data) ==
    [exists |-> TRUE, valid |-> TRUE, data |-> manifest_data]

\* lines 68-77: the list in the file, or [] when the file is absent or is
\* not valid JSON
LoadManifestRepairing(f) == IF f.exists THEN f.data ELSE <<>>
LoadManifest(f) == IF f.exists /\ f.valid THEN f.data ELSE <<>>

---------------------------------------------------------------------------
(* Version entries and plugin entries                                      *)

\* line 38
VersionStr(build_config, tag_name) ==
    Get(build_config, "version", LStrip(tag_name, "v"))

\* line 55
SourceUrl(repo_slug, tag_name, artifact_name) ==
    <<"https://github.com/", repo_slug, "/releases/download/",
      tag_name, "/", artifact_name>>

\* lines 58-65
NewVersionEntry(build_config, version_str, release_body, now, source_url, checksum) ==
    [version   |-> version_str,
     changelog |-> release_body,
     timestamp |-> now,
     sourceUrl |-> source_url,
     checksum  |-> checksum,
     targetAbi |-> Get(build_config, "targetAbi", "unknown")]

\* lines 81-82: index of the first plugin whose guid matches, 0 when none
FindPluginNever(manifest_data, plugin_guid) == 0
FindPlugin(manifest_data, plugin_guid) ==
    IF \E i \in 1..Len(manifest_data) : manifest_data[i].guid = plugin_guid
    THEN CHOOSE i \in 1..Len(manifest_data) :
            /\ manifest_data[i].guid = plugin_guid
            /\ \A j \in 1..(i - 1) : manifest_data[j].guid # plugin_guid
    ELSE 0

\* lines 84-91
UpdatePluginAppending(plugin, build_config, new_version_entry) ==
    [plugin EXCEPT
        !.category    = Get(build_config, "category", "General"),
        !.name        = Get(build_config, "name", "Unknown Plugin"),
        !.description = Get(build_config, "description", ""),
        !.owner       = Get(build_config, "owner", "Unknown Owner"),
        !.overview    = Get(build_config, "overview", ""),
        !.versions    = Append(@, new_version_entry)]
UpdatePlugin(plugin, build_config, new_version_entry) ==
    [plugin EXCEPT
        !.category    = Get(build_config, "category", "General"),
        !.name        = Get(build_config, "name", "Unknown Plugin"),
        !.description = Get(build_config, "description", ""),
        !.owner       = Get(build_config, "owner", "Unknown Owner"),
        !.overview    = Get(build_config, "overview", ""),
        !.versions    = <<new_version_entry>> \o @]

\* lines 97-105
NewPluginEntry(plugin_guid, build_config, new_version_entry) ==
    [category    |-> Get(build_config, "category", "General"),
     guid        |-> plugin_guid,
     name        |-> Get(build_config, "name", "Unknown Plugin"),
     description |-> Get(build_config, "description", ""),
     owner       |-> Get(build_config, "owner", "Unknown Owner"),
     overview    |-> Get(build_config, "overview", ""),
     versions    |-> <<new_version_entry>>]

\* line 106
AddPluginInFront(manifest_data, new_plugin_entry_obj) ==
    <<new_plugin_entry_obj>> \o manifest_data
AddPlugin(manifest_data, new_plugin_entry_obj) ==
    Append(manifest_data, new_plugin_entry_obj)

\* lines 80-106
Upsert(manifest_data, plugin_guid, build_config, new_version_entry) ==
    LET i == FindPlugin(manifest_data, plugin_guid) IN
    IF i # 0
    THEN [manifest_data EXCEPT
            ![i] = UpdatePlugin(@, build_config, new_version_entry)]
    ELSE AddPlugin(manifest_data,
                   NewPluginEntry(plugin_guid, build_config, new_version_entry))

\* lines 115-118
OutputLine(version_str) == [key |-> "manifest_version", value |-> version_str]
OutputWantedAlways(env) == TRUE
OutputWanted(env) == env["GITHUB_OUTPUT"].set


---------------------------------------------------------------------------
(* Inputs of an invocation                                                 *)

CfgMin  == [name |-> "Foo", category |-> "Tools"]
CfgFull == [name |-> "Bar", category |-> "Media", description |-> "d",
            owner |-> "acme", overview |-> "o", version |-> <<"2">>,
            targetAbi |-> "10.9.0.0"]
NoConfig == [k \in {} |-> ""]

BaseIn ==
    [env |-> [IS_PRERELEASE     |-> Unset,
              PLUGIN_GUID       |-> Val("G1"),
              GITHUB_REF_NAME   |-> Val(tag_v1),
              RELEASE_BODY      |-> Unset,
              GITHUB_REPOSITORY |-> Val("o/r"),
              ARTIFACT_NAME     |-> Val("foo.zip"),
              GITHUB_OUTPUT     |-> Val("github_output")],
     build    |-> [readable |-> TRUE, config |-> CfgMin],
     checksum |-> [exists |-> TRUE, text |-> <<"abc123", "\n">>]]

\* releases of either channel, of either plugin, from either build.yaml
ContentInputs ==
    {[BaseIn EXCEPT !.env.IS_PRERELEASE = pre, !.env.PLUGIN_GUID = Val(g),
                    !.build.config = c, !.env.GITHUB_OUTPUT = o] :
        pre \in {Unset, Val(s_true)}, g \in {"G1", "G2"},
        c \in {CfgMin, CfgFull}, o \in {Unset, Val("github_output")}}

\* other tag names, other spellings of IS_PRERELEASE, a release body
TagInputs ==
    {[BaseIn EXCEPT !.env.GITHUB_REF_NAME = Val(t)] :
        t \in {tag_vv1, tag_1, tag_v, tag_1v}}

PrereleaseInputs ==
    {[BaseIn EXCEPT !.env.IS_PRERELEASE = Val(v)] :
        v \in {s_True, s_TRUE, s_false, s_yes, s_trueSp, <<>>}}

BodyInputs == {[BaseIn EXCEPT !.env.RELEASE_BODY = Val("notes")]}

\* required inputs unset or empty, build.yaml unreadable
MissingInputs ==
    {[BaseIn EXCEPT !.env.PLUGIN_GUID = g, !.env.GITHUB_REF_NAME = t,
                    !.env.ARTIFACT_NAME = a, !.checksum.exists = c,
                    !.build.readable = r] :
        g \in {Unset, Val("G1")}, t \in {Unset, Val(tag_v1)},
        a \in {Unset, Val("foo.zip")}, c \in BOOLEAN, r \in BOOLEAN}
    \cup {[BaseIn EXCEPT !.env.PLUGIN_GUID = Val("")],
          [BaseIn EXCEPT !.env.GITHUB_REF_NAME = Val(<<>>)],
          [BaseIn EXCEPT !.env.ARTIFACT_NAME = Val("")]}

Inputs ==
    ContentInputs \cup TagInputs \cup PrereleaseInputs \cup BodyInputs
    \cup MissingInputs

\* two releases started at the same time
ConcInputs ==
    {in \in ContentInputs : in.env.GITHUB_OUTPUT.set}
    \cup {[BaseIn EXCEPT !.env.PLUGIN_GUID = Unset]}

---------------------------------------------------------------------------
(* Initial state                                                           *)

OldEntry(v) ==
    [version |-> v, changelog |-> "old", timestamp |-> 0,
     sourceUrl |-> SourceUrl("o/r", <<"v">> \o v, "foo.zip"),
     checksum |-> <<"000">>, targetAbi |-> "10.8.0.0"]

OldPlugin ==
    [category |-> "Old", guid |-> "G1", name |-> "OldName",
     description |-> "old d", owner |-> "old owner", overview |-> "old o",
     versions |-> <<OldEntry(<<"0", "2">>), OldEntry(<<"0", "1">>)>>]

InitContents ==
    {Absent, Damaged(<<OldPlugin>>), JsonDump(Absent, <<OldPlugin>>)}

\* what earlier commands of the pipeline step left in the output file
EarlierOutput == <<[key |-> "artifact", value |-> <<"z">>]>>

NoLocals ==
    [is_prerelease |-> FALSE, manifest_file |-> "", build_config |-> NoConfig,
     version_str |-> <<>>, new_version_entry |-> <<>>, manifest_data |-> <<>>,
     plugin_found |-> FALSE, err |-> ""]

Init ==
    /\ files \in [Channels -> InitContents]
    /\ out = [p \in Procs |-> EarlierOutput]
    /\ inp = [p \in Procs |-> BaseIn]
    /\ pc = [p \in Procs |-> "idle"]
    /\ loc = [p \in Procs |-> NoLocals]
    /\ files0 = [p \in Procs |-> files]
    /\ clock = 0

---------------------------------------------------------------------------
(* The sections of main()                                                  *)

Goto(p, label) == pc' = [pc EXCEPT ![p] = label]

\* raise ...: the invocation ends with the error
Raise(p, what, locals) ==
    /\ pc' = [pc EXCEPT ![p] = "failed"]
    /\ loc' = [loc EXCEPT ![p] = [locals EXCEPT !.err = what]]

\* line 48: os.path.exists(checksum_file)
ChecksumAssumedThere(in) == TRUE
ChecksumExists(in) == in.checksum.exists

\* str.strip() of the checksum file's text
IsSpace(c) == c \in {" ", "\n", "\t"}
RECURSIVE RStrip(_)
RStrip(s) ==
    IF s # <<>> /\ IsSpace(s[Len(s)]) THEN RStrip(SubSeq(s, 1, Len(s) - 1)) ELSE s
RECURSIVE LStripSpace(_)
LStripSpace(s) ==
    IF s # <<>> /\ IsSpace(Head(s)) THEN LStripSpace(Tail(s)) ELSE s
Strip(s) == RStrip(LStripSpace(s))

\* the process is started: its environment and input files are fixed
Launch(p, in) ==
    /\ inp' = [inp EXCEPT ![p] = in]
    /\ loc' = [loc EXCEPT ![p] = NoLocals]
    /\ out' = [out EXCEPT ![p] = EarlierOutput]
    /\ files0' = [files0 EXCEPT ![p] = files]
    /\ clock' = clock + 1
    /\ Goto(p, "resolve")
    /\ UNCHANGED files

\* lines 13-15
ResolvePath(p) ==
    /\ pc[p] = "resolve"
    /\ loc' = [loc EXCEPT
                ![p].is_prerelease = IsPrerelease(inp[p].env),
                ![p].manifest_file = ManifestFile(IsPrerelease(inp[p].env))]
    /\ Goto(p, "check_guid")
    /\ UNCHANGED <<files, out, inp, files0, clock>>

\* lines 23-25
CheckGuid(p) ==
    /\ pc[p] = "check_guid"
    /\ IF Falsy(inp[p].env, "PLUGIN_GUID")
       THEN Raise(p, "PLUGIN_GUID", loc[p])
       ELSE Goto(p, "read_build") /\ UNCHANGED loc
    /\ UNCHANGED <<files, out, inp, files0, clock>>

\* lines 29-30
ReadBuild(p) ==
    /\ pc[p] = "read_build"
    /\ IF ~inp[p].build.readable
       THEN Raise(p, "build.yaml", loc[p])
       ELSE /\ loc' = [loc EXCEPT ![p].build_config = inp[p].build.config]
            /\ Goto(p, "release_info")
    /\ UNCHANGED <<files, out, inp, files0, clock>>

\* lines 34-44
ReleaseInfo(p) ==
    /\ pc[p] = "release_info"
    /\ IF Falsy(inp[p].env, "GITHUB_REF_NAME")
       THEN Raise(p, "GITHUB_REF_NAME", loc[p])
       ELSE LET tag_name == inp[p].env["GITHUB_REF_NAME"].val
                locals   == [loc[p] EXCEPT !.version_str =
                                VersionStr(loc[p].build_config, tag_name)]
            IN  IF Falsy(inp[p].env, "ARTIFACT_NAME")
                THEN Raise(p, "ARTIFACT_NAME", locals)
                ELSE /\ loc' = [loc EXCEPT ![p] = locals]
                     /\ Goto(p, "checksum")
    /\ UNCHANGED <<files, out, inp, files0, clock>>

\* lines 47-65
PrepareEntry(p) ==
    /\ pc[p] = "checksum"
    /\ IF ~ChecksumExists(inp[p])
       THEN Raise(p, "checksum.txt", loc[p])
       ELSE LET env == inp[p].env
                source_url == SourceUrl(EnvGet(env, "GITHUB_REPOSITORY", "None"),
                                        env["GITHUB_REF_NAME"].val,
                                        env["ARTIFACT_NAME"].val)
            IN  /\ loc' = [loc EXCEPT ![p].new_version_entry =
                              NewVersionEntry(loc[p].build_config,
                                  loc[p].version_str,
                                  EnvGet(env, "RELEASE_BODY", "See release notes."),
                                  clock, source_url,
                                  Strip(inp[p].checksum.text))]
                /\ Goto(p, "load")
    /\ UNCHANGED <<files, out, inp, files0, clock>>

\* lines 68-77
Load(p) ==
    /\ pc[p] = "load"
    /\ loc' = [loc EXCEPT ![p].manifest_data =
                  LoadManifest(files[loc[p].manifest_file])]
    /\ Goto(p, "upsert")
    /\ UNCHANGED <<files, out, inp, files0, clock>>

\* lines 80-106
UpsertPlugin(p) ==
    /\ pc[p] = "upsert"
    /\ LET plugin_guid == inp[p].env["PLUGIN_GUID"].val IN
       loc' = [loc EXCEPT
                ![p].plugin_found =
                    FindPlugin(loc[p].manifest_data, plugin_guid) # 0,
                ![p].manifest_data =
                    Upsert(loc[p].manifest_data, plugin_guid,
                           loc[p].build_config, loc[p].new_version_entry)]
    /\ Goto(p, "write")
    /\ UNCHANGED <<files, out, inp, files0, clock>>

\* lines 109-111
WriteManifest(p) ==
    /\ pc[p] = "write"
    /\ files' = [files EXCEPT
                  ![loc[p].manifest_file] = JsonDump(@, loc[p].manifest_data)]
    /\ Goto(p, "emit")
    /\ UNCHANGED <<out, inp, loc, files0, clock>>

\* lines 115-118
EmitOutput(p) ==
    /\ pc[p] = "emit"
    /\ out' = [out EXCEPT
                ![p] = IF OutputWanted(inp[p].env)
                       THEN Append(@, OutputLine(loc[p].version_str))
                       ELSE @]
    /\ Goto(p, "done")
    /\ UNCHANGED <<files, inp, loc, files0, clock>>

Step(p) ==
    \/ ResolvePath(p)
    \/ CheckGuid(p)
    \/ ReadBuild(p)
    \/ ReleaseInfo(p)
    \/ PrepareEntry(p)
    \/ Load(p)
    \/ UpsertPlugin(p)
    \/ WriteManifest(p)
    \/ EmitOutput(p)

---------------------------------------------------------------------------
(* Specifications                                                          *)

\* The pipeline runs the step once per release, one release after the other.
NextRun ==
    /\ pc["p1"] \in {"idle", "done", "failed"}
    /\ clock < MaxRuns
    /\ \E in \in Inputs : Launch("p1", in)

Next == NextRun \/ Step("p1")

Spec == Init /\ [][Next]_vars

\* Two releases run the step at the same time, each once.
StartRelease(p) ==
    /\ pc[p] = "idle"
    /\ \E in \in ConcInputs : Launch(p, in)

NextConc == \E p \in Procs : StartRelease(p) \/ Step(p)

SpecConc == Init /\ [][NextConc]_vars


---------------------------------------------------------------------------
(* Vocabulary of the properties                                            *)

Ended(p)    == pc[p] \in {"done", "failed"}
TargetOf(p) == loc[p].manifest_file
GuidOf(p)   == inp[p].env["PLUGIN_GUID"].val

\* an environment variable that is not there: unset, or set to nothing
Missing(v) == IF v.set THEN Len(v.val) = 0 ELSE TRUE

RequiredMissing(in) ==
    \/ Missing(in.env["PLUGIN_GUID"])
    \/ Missing(in.env["GITHUB_REF_NAME"])
    \/ Missing(in.env["ARTIFACT_NAME"])
    \/ ~in.checksum.exists

ConfigurationErrors ==
    {"PLUGIN_GUID", "GITHUB_REF_NAME", "ARTIFACT_NAME", "checksum.txt"}

\* the positions of the first plugin entry with the guid (none: the empty set)
Matching(manifest, guid) ==
    LET I == {i \in 1..Len(manifest) : manifest[i].guid = guid}
    IN  {i \in I : \A j \in I : i <= j}

\* an upsert step of p: from the loaded manifest to the updated one
UpsertStepOf(p) == pc[p] = "upsert" /\ pc'[p] = "write"

MetadataFrom(plugin, cfg) ==
    /\ plugin.category    = (IF "category" \in DOMAIN cfg THEN cfg.category ELSE "General")
    /\ plugin.name        = (IF "name" \in DOMAIN cfg THEN cfg.name ELSE "Unknown Plugin")
    /\ plugin.description = (IF "description" \in DOMAIN cfg THEN cfg.description ELSE "")
    /\ plugin.owner       = (IF "owner" \in DOMAIN cfg THEN cfg.owner ELSE "Unknown Owner")
    /\ plugin.overview    = (IF "overview" \in DOMAIN cfg THEN cfg.overview ELSE "")

---------------------------------------------------------------------------
(* C1: when PLUGIN_GUID matches an existing plugin entry, the upsert       *)
(* leaves the manifest length unchanged, sets that entry's category, name, *)
(* description, owner and overview from the build config, and makes its    *)
(* versions list the new version entry followed by the previous list in    *)
(* its original order; no other entry changes.                             *)
C1_UpsertExisting ==
    [][\A p \in Procs :
        UpsertStepOf(p) =>
            LET old == loc[p].manifest_data
                new == loc'[p].manifest_data
                e   == loc[p].new_version_entry
            IN  \A i \in Matching(old, GuidOf(p)) :
                  /\ Len(new) = Len(old)
                  /\ new[i].guid = old[i].guid
                  /\ MetadataFrom(new[i], loc[p].build_config)
                  /\ Len(new[i].versions) = Len(old[i].versions) + 1
                  /\ new[i].versions[1] = e
                  /\ \A k \in 1..Len(old[i].versions) :
                        new[i].versions[k + 1] = old[i].versions[k]
                  /\ \A j \in 1..Len(old) : j # i => new[j] = old[j]]_vars

\* an existing plugin with two earlier versions has been given a third
C1_Witness ==
    \E p \in Procs :
        /\ pc[p] = "write"
        /\ loc[p].plugin_found
        /\ \E i \in Matching(loc[p].manifest_data, GuidOf(p)) :
              /\ Len(loc[p].manifest_data[i].versions) >= 3
              /\ loc[p].manifest_data[i].name # "OldName"

(* C2: when no entry has the guid PLUGIN_GUID, the upsert appends exactly  *)
(* one plugin entry at the end, with guid = PLUGIN_GUID and versions = [the*)
(* new version entry]; the length grows by 1 and the entries already there *)
(* keep their content and order.                                           *)
C2_UpsertNew ==
    [][\A p \in Procs :
        (UpsertStepOf(p) /\ Matching(loc[p].manifest_data, GuidOf(p)) = {}) =>
            LET old == loc[p].manifest_data
                new == loc'[p].manifest_data
            IN  /\ Len(new) = Len(old) + 1
                /\ \A j \in 1..Len(old) : new[j] = old[j]
                /\ new[Len(new)].guid = GuidOf(p)
                /\ new[Len(new)].versions = <<loc[p].new_version_entry>>
                /\ MetadataFrom(new[Len(new)], loc[p].build_config)]_vars

\* a new plugin has been added to a manifest that already had one
C2_Witness ==
    \E p \in Procs :
        /\ pc[p] = "write"
        /\ ~loc[p].plugin_found
        /\ Len(loc[p].manifest_data) >= 2

(* C3: starting from an absent manifest file or one whose guids are all    *)
(* distinct, no written manifest ever holds two plugin entries with the    *)
(* same guid, whatever PLUGIN_GUID values the runs are given.              *)
C3_OnePluginPerGuid ==
    \A ch \in Channels :
        files[ch].valid =>
            \A i, j \in 1..Len(files[ch].data) :
                files[ch].data[i].guid = files[ch].data[j].guid => i = j

\* a run has updated a plugin of a manifest of two plugins
C3_Witness ==
    /\ pc["p1"] = "done"
    /\ loc["p1"].plugin_found
    /\ Len(files[TargetOf("p1")].data) >= 2

\* the tag name without its first character when that is a "v"
RemoveOneLeadingV(tag) ==
    IF Len(tag) > 0 /\ tag[1] = "v" THEN SubSeq(tag, 2, Len(tag)) ELSE tag

(* C4: without a version key in the build config, the version recorded in  *)
(* the new entry and emitted is the tag name with exactly one leading "v"  *)
(* removed if there is one, also for tags that start with several "v";     *)
(* with a version key, it is that key's value.                             *)
C4_VersionFromTag ==
    \A p \in Procs :
        pc[p] \in {"load", "upsert", "write", "emit", "done"} =>
            LET cfg == loc[p].build_config
                tag == inp[p].env["GITHUB_REF_NAME"].val
                expected == IF "version" \in DOMAIN cfg THEN cfg.version
                            ELSE RemoveOneLeadingV(tag)
            IN  /\ loc[p].new_version_entry.version = expected
                /\ (pc[p] = "done" /\ inp[p].env["GITHUB_OUTPUT"].set) =>
                      out[p][Len(out[p])].value = expected

BuildReadAttempted(p) ==
    \/ pc[p] \in {"release_info", "checksum", "load", "upsert", "write",
                  "emit", "done"}
    \/ pc[p] = "failed" /\ loc[p].err # "PLUGIN_GUID"

C7_UnreadableManifestIsEmpty ==
    \A p \in Procs :
        (pc[p] \in {"upsert", "write", "emit", "done"}
         /\ ~(files0[p][TargetOf(p)].exists /\ files0[p][TargetOf(p)].valid)) =>
            /\ loc[p].err = ""
            /\ pc[p] = "upsert" => loc[p].manifest_data = <<>>
            /\ pc[p] \in {"emit", "done"} =>
                  LET f == files[TargetOf(p)] IN
                  /\ f.exists /\ f.valid
                  /\ Len(f.data) = 1
                  /\ f.data[1].guid = GuidOf(p)
                  /\ f.data[1].versions = <<loc[p].new_version_entry>>

\* a run has replaced a manifest that was not valid JSON
C7_Witness ==
    \E p \in Procs :
        /\ pc[p] = "done"
        /\ files0[p][TargetOf(p)].exists
        /\ ~files0[p][TargetOf(p)].valid
        /\ files0[p][TargetOf(p)].data # <<>>

\* "true" in every mix of upper and lower case
SpellingsOfTrue ==
    {<<a, b, c, d>> : a \in {"t", "T"}, b \in {"r", "R"},
                      c \in {"u", "U"}, d \in {"e", "E"}}

(* C8: the manifest file of a run is manifest-prerelease.json exactly when *)
(* IS_PRERELEASE is "true" in some mix of upper and lower case, and        *)
(* manifest.json for every other value or when the variable is unset; the  *)
(* run leaves the manifest of the other channel as it was.                 *)
C8_TargetByChannel ==
    \A p \in Procs :
        pc[p] \notin {"idle", "resolve"} =>
            LET v == inp[p].env["IS_PRERELEASE"]
                prerelease == IF v.set THEN v.val \in SpellingsOfTrue ELSE FALSE
                mine == IF prerelease THEN PrereleaseFile ELSE StableFile
            IN  /\ TargetOf(p) = mine
                /\ \A ch \in Channels \ {mine} : files[ch] = files0[p][ch]
                /\ pc[p] = "upsert" =>
                      loc[p].manifest_data =
                          IF files[mine].exists /\ files[mine].valid
                          THEN files[mine].data ELSE <<>>
                /\ pc[p] \in {"emit", "done"} =>
                      files[mine].data = loc[p].manifest_data

\* IS_PRERELEASE=True has sent a release to the prerelease manifest
C8_Witness ==
    \E p \in Procs :
        /\ pc[p] = "done"
        /\ inp[p].env["IS_PRERELEASE"] = Val(s_True)
        /\ files[PrereleaseFile] # files0[p][PrereleaseFile]
        /\ files[StableFile] = files0[p][StableFile]

(* C9: a run appends exactly one line manifest_version=<version> to the    *)
(* output file if and only if GITHUB_OUTPUT is set and the manifest write  *)
(* has completed; <version> is the version of the entry the run inserted;  *)
(* without GITHUB_OUTPUT the output file is not touched.                   *)
C9_OutputAfterWrite ==
    \A p \in Procs :
        pc[p] # "idle" =>
            IF pc[p] = "done" /\ inp[p].env["GITHUB_OUTPUT"].set
            THEN LET f == files[TargetOf(p)] IN
                 /\ f.exists /\ f.valid
                 /\ \E i \in Matching(f.data, GuidOf(p)) :
                       out[p] = EarlierOutput \o
                                <<[key   |-> "manifest_version",
                                   value |-> f.data[i].versions[1].version]>>
            ELSE out[p] = EarlierOutput

\* a finished run has reported the version it took from the tag
C9_Witness ==
    \E p \in Procs :
        /\ pc[p] = "done"
        /\ inp[p].env["GITHUB_OUTPUT"].set
        /\ "version" \notin DOMAIN loc[p].build_config
        /\ Len(out[p]) = Len(EarlierOutput) + 1

\* the invocation has written its manifest to the file
HasWritten(p, ch) == pc[p] \in {"emit", "done"} /\ TargetOf(p) = ch

(* C10: invocations that run at the same time on one manifest file are not *)
(* kept apart: the file always holds exactly what the invocation that      *)
(* wrote last had computed from its own load, no invocation reports an     *)
(* error for it, and so an invocation's update can be lost.                *)
C10_LastWriterWins ==
    \A ch \in Channels :
        /\ (\E p \in Procs : HasWritten(p, ch)) =>
              \E p \in Procs :
                  /\ HasWritten(p, ch)
                  /\ files[ch] = [exists |-> TRUE, valid |-> TRUE,
                                  data |-> loc[p].manifest_data]
        /\ \A p \in Procs : HasWritten(p, ch) => loc[p].err = ""

EntryIn(e, f) ==
    \E i \in 1..Len(f.data) :
        \E k \in 1..Len(f.data[i].versions) : f.data[i].versions[k] = e

\* both invocations have finished without an error, and the manifest holds
\* the version entry of only one of them
C10_Witness ==
    \E p, q \in Procs :
        /\ p # q
        /\ pc[p] = "done" /\ pc[q] = "done"
        /\ loc[p].err = "" /\ loc[q].err = ""
        /\ TargetOf(p) = TargetOf(q)
        /\ loc[p].new_version_entry # loc[q].new_version_entry
        /\ EntryIn(loc[q].new_version_entry, files[TargetOf(q)])
        /\ ~EntryIn(loc[p].new_version_entry, files[TargetOf(p)])

===========================================================================
